---- MODULE Spec2Model ----
(***************************************************************************)
(* SWPrecacheWebpackPlugin (src/src/index.js): the plugin instance, the     *)
(* 'after-emit' handler registered by apply, and the promise / callback     *)
(* chain it starts on the host's output filesystem.                         *)
(*                                                                          *)
(* Strings are sequences of one-character strings, so that path joining,    *)
(* placeholder replacement, URL resolution and RegExp matching are computed *)
(* character by character as the JavaScript runtime computes them.          *)
(* Objects (options, config, overrides, stripPrefixMulti) are functions     *)
(* from their keys to their values; an absent key is outside the DOMAIN.    *)
(***************************************************************************)
EXTENDS Integers, Sequences, FiniteSets, TLC

VARIABLES
  config,     \* this.config
  options,    \* this.options
  overrides,  \* this.overrides
  warnings,   \* this.warnings
  lastIndex,  \* lastIndex of each RegExp of options.staticFileGlobsIgnorePatterns
  compiler,   \* the host compiler: outputPath, options.output
  compilation, \* the compilation of the latest 'after-emit' event: assets, hash
  generateArg, \* the argument of the latest call of swPrecache.generate
  events,     \* the number of 'after-emit' events the host has emitted
  builds      \* per event: its promise chain, its filesystem calls, its callback;
              \* a build with nothing left to run is dropped at the next event

vars == <<config, options, overrides, warnings, lastIndex, compiler, compilation,
          generateArg, events, builds>>

----------------------------------------------------------------------------
(* Bounds of the model *)

MaxBuilds == 2

----------------------------------------------------------------------------
(* Constants of the plugin *)

FILEPATH_WARNING == "FILEPATH_WARNING"

FORCEDELETE_WARNING == "FORCEDELETE_WARNING"

\* the plugin hands the cache id on unread: an atom
DEFAULT_CACHE_ID == "sw-precache-webpack-plugin"

DEFAULT_WORKER_FILENAME == <<"s","e","r","v","i","c","e","-","w","o","r","k","e","r",".","j","s">>

DEFAULT_PUBLIC_PATH == <<>>

DEFAULT_IMPORT_SCRIPTS == <<>>

DEFAULT_IGNORE_PATTERNS == <<>>

DEFAULT_OPTIONS ==
  [ cacheId |-> DEFAULT_CACHE_ID,
    filename |-> DEFAULT_WORKER_FILENAME,
    importScripts |-> DEFAULT_IMPORT_SCRIPTS,
    staticFileGlobsIgnorePatterns |-> DEFAULT_IGNORE_PATTERNS,
    mergeStaticsConfig |-> FALSE,
    minify |-> FALSE ]

\* the token replaced in importScripts: the source of /\[hash\]/g
HashPlaceholder == <<"[","h","a","s","h","]">>

\* path.sep on the POSIX build hosts
PathSep == "/"

----------------------------------------------------------------------------
(* Objects: the spread { ...a, ...b } and property reads *)

Spread(a, b) ==
  [k \in (DOMAIN a) \cup (DOMAIN b) |-> IF k \in DOMAIN b THEN b[k] ELSE a[k]]

Has(o, k) == k \in DOMAIN o

\* o[k] || dflt for objects whose absent keys read as undefined
GetOr(o, k, dflt) == IF k \in DOMAIN o THEN o[k] ELSE dflt

\* truthiness of a flag that may be absent (undefined is falsy)
Flag(o, k) == (k \in DOMAIN o) /\ (o[k] = TRUE)

EmptyObject == [k \in {} |-> TRUE]

----------------------------------------------------------------------------
(* Strings *)

StartsWith(s, p) == Len(p) <= Len(s) /\ SubSeq(s, 1, Len(p)) = p

\* String.prototype.replace with a global literal pattern: every occurrence,
\* scanning left to right, the replacement not rescanned
RECURSIVE ReplaceAll(_, _, _)
ReplaceAll(s, pat, rep) ==
  IF s = <<>> THEN <<>>
  ELSE IF StartsWith(s, pat)
       THEN rep \o ReplaceAll(SubSeq(s, Len(pat) + 1, Len(s)), pat, rep)
       ELSE <<Head(s)>> \o ReplaceAll(Tail(s), pat, rep)

----------------------------------------------------------------------------
(* path (POSIX): join, resolve *)

\* the segments of s between separators, empty segments included
RECURSIVE SplitFrom(_, _)
SplitFrom(s, cur) ==
  IF s = <<>> THEN <<cur>>
  ELSE IF Head(s) = PathSep THEN <<cur>> \o SplitFrom(Tail(s), <<>>)
       ELSE SplitFrom(Tail(s), Append(cur, Head(s)))

Split(s) == SplitFrom(s, <<>>)

IsAbsolute(p) == p # <<>> /\ Head(p) = PathSep

\* normalizeString: drops empty and "." segments, resolves ".." against the
\* segments kept so far; above the root ".." is dropped, in a relative path kept
RECURSIVE NormalizeSegments(_, _, _)
NormalizeSegments(segs, acc, allowAboveRoot) ==
  IF segs = <<>> THEN acc
  ELSE LET s == Head(segs) IN
       IF s = <<>> \/ s = <<".">>
       THEN NormalizeSegments(Tail(segs), acc, allowAboveRoot)
       ELSE IF s = <<".", ".">>
            THEN IF acc # <<>> /\ acc[Len(acc)] # <<".", ".">>
                 THEN NormalizeSegments(Tail(segs), SubSeq(acc, 1, Len(acc) - 1), allowAboveRoot)
                 ELSE IF allowAboveRoot
                      THEN NormalizeSegments(Tail(segs), Append(acc, s), allowAboveRoot)
                      ELSE NormalizeSegments(Tail(segs), acc, allowAboveRoot)
            ELSE NormalizeSegments(Tail(segs), Append(acc, s), allowAboveRoot)

RECURSIVE JoinSegments(_)
JoinSegments(segs) ==
  IF segs = <<>> THEN <<>>
  ELSE IF Len(segs) = 1 THEN Head(segs)
       ELSE Head(segs) \o <<PathSep>> \o JoinSegments(Tail(segs))

\* path.normalize
PathNormalize(p) ==
  IF p = <<>> THEN <<".">>
  ELSE LET abs == IsAbsolute(p)
           trailing == p[Len(p)] = PathSep
           body == JoinSegments(NormalizeSegments(Split(p), <<>>, ~abs))
           body1 == IF body = <<>> /\ ~abs THEN <<".">> ELSE body
           body2 == IF body1 # <<>> /\ trailing THEN Append(body1, PathSep) ELSE body1
       IN IF abs THEN <<PathSep>> \o body2 ELSE body2

\* path.join(a, b)
PathJoin(a, b) ==
  IF a = <<>> /\ b = <<>> THEN <<".">>
  ELSE IF a = <<>> THEN PathNormalize(b)
  ELSE IF b = <<>> THEN PathNormalize(a)
  ELSE PathNormalize(a \o <<PathSep>> \o b)

\* process.cwd() of the build
Cwd == <<"/", "w">>

\* path.resolve(a, b): right to left until an absolute path is built
PathResolve(a, b) ==
  LET raw == IF IsAbsolute(b) THEN b
             ELSE IF IsAbsolute(a) THEN a \o <<PathSep>> \o b
             ELSE Cwd \o <<PathSep>> \o a \o <<PathSep>> \o b
  IN <<PathSep>> \o JoinSegments(NormalizeSegments(Split(raw), <<>>, FALSE))

----------------------------------------------------------------------------
(* url.resolve(from, to) for path-only URLs (no scheme, host, query) *)

\* the directory part of a URL path: up to and including its last separator
RECURSIVE UrlDir(_)
UrlDir(u) ==
  IF u = <<>> THEN <<>>
  ELSE IF u[Len(u)] = PathSep THEN u
       ELSE UrlDir(SubSeq(u, 1, Len(u) - 1))

UrlResolve(from, to) ==
  IF to = <<>> THEN from
  ELSE IF from = <<>> THEN to
  ELSE IF IsAbsolute(to) THEN to
  ELSE UrlDir(from) \o to

----------------------------------------------------------------------------
(* RegExp.prototype.test for a literal pattern, optionally anchored at the  *)
(* end ($) and optionally with the global flag.  A global RegExp starts at  *)
(* its lastIndex and stores where its match ended; a failed match resets    *)
(* lastIndex to 0.  A RegExp without the flag starts at 0 and stores        *)
(* nothing.                                                                 *)

MatchesAt(re, text, i) ==
  /\ i + Len(re.source) <= Len(text)
  /\ SubSeq(text, i + 1, i + Len(re.source)) = re.source
  /\ (re.anchorEnd => i + Len(re.source) = Len(text))

\* the positions (0-based) at or after start where re matches text
MatchPositions(re, text, start) ==
  {i \in start .. Len(text) : MatchesAt(re, text, i)}

Min(S) == CHOOSE x \in S : \A y \in S : x <= y

RegExpTest(re, text, li) ==
  LET start == IF re.global THEN li ELSE 0
      found == IF start > Len(text) THEN {} ELSE MatchPositions(re, text, start)
  IN IF found = {}
     THEN [result |-> FALSE, lastIndex |-> IF re.global THEN 0 ELSE li]
     ELSE [result |-> TRUE,
           lastIndex |-> IF re.global THEN Min(found) + Len(re.source) ELSE li]

\* patterns.some(regex => regex.test(text)): left to right, stopping at the
\* first RegExp that matches; lis are the lastIndex values, threaded through
RECURSIVE SomeTest(_, _, _, _)
SomeTest(patterns, text, lis, i) ==
  IF i > Len(patterns) THEN [result |-> FALSE, lis |-> lis]
  ELSE LET t == RegExpTest(patterns[i], text, lis[i])
           lis1 == [lis EXCEPT ![i] = t.lastIndex]
       IN IF t.result THEN [result |-> TRUE, lis |-> lis1]
          ELSE SomeTest(patterns, text, lis1, i + 1)

\* entries.filter(text => !patterns.some(regex => regex.test(text)))
RECURSIVE FilterIgnored(_, _, _)
FilterIgnored(entries, patterns, lis) ==
  IF entries = <<>> THEN [kept |-> <<>>, lis |-> lis]
  ELSE LET t == SomeTest(patterns, Head(entries), lis, 1)
           rest == FilterIgnored(Tail(entries), patterns, t.lis)
       IN [kept |-> IF t.result THEN rest.kept ELSE <<Head(entries)>> \o rest.kept,
           lis |-> rest.lis]

----------------------------------------------------------------------------
(* Inputs: the user's options, the host compiler, the compilations *)

OutputPath == <<"/", "d">>

PublicPath == <<"/", "p", "/">>

CustomFilepath == <<"/", "o", "/", "s">>

CustomFilename == <<"x", "/", "s">>

\* importScripts: ['i[hash]']
UserImportScripts == << <<"i", "[", "h", "a", "s", "h", "]">> >>

\* staticFileGlobs: ['/e/*.m']
UserStaticFileGlobs == << <<"/", "e", "/", "*", ".", "m">> >>

\* stripPrefixMulti: {'/d/': '/u/'}: the key configure computes, another value
UserStripPrefixMulti == (<<"/", "d", "/">> :> <<"/", "u", "/">>)

\* /\.m$/ and /\.m$/g
IgnoreM == [source |-> <<".", "m">>, anchorEnd |-> TRUE, global |-> FALSE]

IgnoreMGlobal == [source |-> <<".", "m">>, anchorEnd |-> TRUE, global |-> TRUE]

\* every object with some of the keys of o
SubObjects(o) == {[k \in D |-> o[k]] : D \in SUBSET (DOMAIN o)}

\* options that bear on the warnings and on the promise chain
WarningOptions ==
  SubObjects([filepath |-> CustomFilepath, forceDelete |-> TRUE, debug |-> TRUE])
    \cup {[minify |-> TRUE]}

\* options that bear on the output path and the imported scripts
PathOptions ==
  SubObjects([filename |-> CustomFilename, importScripts |-> UserImportScripts])

\* options that bear on the file globs and the prefix map
StaticsOptions ==
  { Spread(o, [staticFileGlobsIgnorePatterns |-> <<IgnoreM>>]) :
      o \in SubObjects([staticFileGlobs |-> UserStaticFileGlobs,
                        stripPrefixMulti |-> UserStripPrefixMulti,
                        mergeStaticsConfig |-> TRUE]) }
    \cup
  { Spread(o, [staticFileGlobsIgnorePatterns |-> <<IgnoreMGlobal>>]) :
      o \in SubObjects([staticFileGlobs |-> UserStaticFileGlobs]) }

\* compiler.outputPath and compiler.options.output, publicPath set or not
Compilers ==
  { [outputPath |-> OutputPath, options |-> [output |-> out]] :
      out \in SubObjects([publicPath |-> PublicPath]) }

CompilerWithPublicPath ==
  [outputPath |-> OutputPath, options |-> [output |-> [publicPath |-> PublicPath]]]

\* the plugin's options and the compiler it is applied to
Setups ==
  {[userOptions |-> o, compiler |-> CompilerWithPublicPath] : o \in WarningOptions}
    \cup {[userOptions |-> o, compiler |-> c] : o \in PathOptions, c \in Compilers}
    \cup {[userOptions |-> o, compiler |-> CompilerWithPublicPath] : o \in StaticsOptions}

NoCompilation == [assets |-> <<>>, hash |-> <<>>]

\* compilation.assets (its keys, in order) and compilation.hash
Compilations ==
  { [assets |-> << <<"a", ".", "m">>, <<"b", ".", "m">> >>, hash |-> <<"7">>],
    [assets |-> << <<"j", "/", "a", ".", "j">> >>, hash |-> <<"8">>] }

\* what swPrecache.generate resolves with, and what UglifyJS makes of it
GeneratedSource == "serviceWorkerFileContents"

MinifiedCode(src) == "minified:" \o src

GenerateErrors == {"GenerateError"}

MinifyErrors == {"UglifyError"}

\* the err argument of an output filesystem callback: null or an error
FsResults == {"null", "FsError"}

----------------------------------------------------------------------------
(* The plugin *)

\* the getter with the user's options spread last
workerOptionsUserLast(cfg, opts, ovr) == Spread(Spread(cfg, ovr), opts)

\* get workerOptions
workerOptionsOf(cfg, opts, ovr) == Spread(Spread(cfg, opts), ovr)

workerOptions == workerOptionsOf(config, options, overrides)

\* constructor(options)
Constructed(userOptions) ==
  [config |-> EmptyObject,
   options |-> Spread(DEFAULT_OPTIONS, userOptions),
   overrides |-> EmptyObject,
   warnings |-> <<>>]

\* the merge of the computed statics skipped
mergeStaticsSkipped(opts, ovr, computed) == ovr

\* if (mergeStaticsConfig) this.overrides = {...this.overrides, staticFileGlobs, stripPrefixMulti}
mergeStatics(opts, ovr, computed) ==
  IF Flag(opts, "mergeStaticsConfig") THEN Spread(ovr, computed) ELSE ovr

\* configure(compiler, compilation): the new config, overrides and the
\* lastIndex values its RegExp tests leave behind
configure(cfg, opts, ovr, lis, theCompiler, theCompilation) ==
  LET staticFileGlobsIgnorePatterns == opts.staticFileGlobsIgnorePatterns
      outputPath == theCompiler.outputPath
      filepath == IF Has(opts, "filepath") THEN opts.filepath
                  ELSE PathResolve(outputPath, opts.filename)
      publicPath == GetOr(theCompiler.options.output, "publicPath", DEFAULT_PUBLIC_PATH)
      assetGlobs == [i \in 1 .. Len(theCompilation.assets) |->
                       PathJoin(outputPath, theCompilation.assets[i])]
      filtered == FilterIgnored(assetGlobs \o GetOr(opts, "staticFileGlobs", <<>>),
                                staticFileGlobsIgnorePatterns, lis)
      staticFileGlobs == filtered.kept
      stripPrefixMulti ==
        IF outputPath # <<>>
        THEN Spread(GetOr(opts, "stripPrefixMulti", EmptyObject),
                    (outputPath \o <<PathSep>>) :> publicPath)
        ELSE GetOr(opts, "stripPrefixMulti", EmptyObject)
      computed == [staticFileGlobs |-> staticFileGlobs, stripPrefixMulti |-> stripPrefixMulti]
      ovr1 == Spread(ovr, [filepath |-> filepath])
      ovr2 == IF Has(opts, "importScripts")
              THEN Spread(ovr1,
                     [importScripts |->
                        [i \in 1 .. Len(opts.importScripts) |->
                           UrlResolve(publicPath,
                             ReplaceAll(opts.importScripts[i], HashPlaceholder, theCompilation.hash))]])
              ELSE ovr1
      ovr3 == mergeStatics(opts, ovr2, computed)
  IN [config |-> Spread(cfg, computed), overrides |-> ovr3, lastIndex |-> filtered.lis]

\* checkWarnings(compilation): this.warnings and compilation.warnings after it
checkWarnings(opts, effective, ws, compilationWarnings) ==
  LET ws1 == IF Has(opts, "filepath") THEN Append(ws, FILEPATH_WARNING) ELSE ws
      ws2 == IF Flag(opts, "forceDelete") THEN Append(ws1, FORCEDELETE_WARNING) ELSE ws1
  IN [warnings |-> ws2,
      compilationWarnings |-> IF Flag(effective, "debug")
                              THEN compilationWarnings \o ws2
                              ELSE compilationWarnings]

\* path.resolve(filepath, '..')
ParentDirectory(filepath) == PathResolve(filepath, <<".", ".">>)

----------------------------------------------------------------------------
(* One build: the handler of 'after-emit' and the callbacks it leaves behind *)

Success(arg) == arg \in {"undefined", "null"}

\* compiler.outputFileSystem calls of a build that have not called back yet
MkdirpPending(b) == Len(builds[b].mkdirpResults) < Len(builds[b].mkdirpCalls)

WriteFilePending(b) == Len(builds[b].writeFileResults) < Len(builds[b].writeFileCalls)

\* nothing of the build is left to run: its chain is settled and no filesystem
\* call of it is pending, so nothing refers to its closures any more
Finished(build) ==
  /\ build.chain = "settled"
  /\ Len(build.mkdirpResults) = Len(build.mkdirpCalls)
  /\ Len(build.writeFileResults) = Len(build.writeFileCalls)

Unfinished(build) == ~Finished(build)

Init ==
  /\ \E setup \in Setups :
       LET this == Constructed(setup.userOptions) IN
         /\ config = this.config
         /\ options = this.options
         /\ overrides = this.overrides
         /\ warnings = this.warnings
         /\ lastIndex = [i \in 1 .. Len(this.options.staticFileGlobsIgnorePatterns) |-> 0]
         /\ compiler = setup.compiler
  /\ compilation = NoCompilation
  /\ generateArg = EmptyObject
  /\ events = 0
  /\ builds = <<>>

\* the host emits 'after-emit': configure, createServiceWorker up to the call of
\* swPrecache.generate, and the construction of the promise chain, during which
\* the argument this.checkWarnings(compilation) is evaluated.  The host emits
\* again only once the callback of its latest event has been invoked.
AfterEmit(emitted) ==
  /\ events < MaxBuilds
  /\ builds # <<>> => builds[Len(builds)].callbackArgs # <<>>
  /\ events' = events + 1
  /\ LET c == configure(config, options, overrides, lastIndex, compiler, emitted)
         effective == workerOptionsOf(c.config, options, c.overrides)
         w == checkWarnings(options, effective, warnings, <<>>)
     IN /\ config' = c.config
        /\ overrides' = c.overrides
        /\ lastIndex' = c.lastIndex
        /\ warnings' = w.warnings
        /\ compilation' = emitted
        /\ generateArg' = effective
        /\ builds' = Append(SelectSeq(builds, Unfinished),
             [event |-> events + 1,
              compilationWarnings |-> w.compilationWarnings,
              chain |-> "generate",
              value |-> "pending",
              mkdirpCalls |-> <<>>,
              mkdirpResults |-> <<>>,
              writeFileCalls |-> <<>>,
              writeFileResults |-> <<>>,
              callbackArgs |-> <<>>])
  /\ UNCHANGED <<options, compiler>>

\* what createServiceWorker's promise settles with once generate has resolved
CreateServiceWorkerOutcomes(opts, src) ==
  IF Flag(opts, "minify")
  THEN {[chain |-> "fulfilled", value |-> MinifiedCode(src)]}
       \cup {[chain |-> "rejected", value |-> e] : e \in MinifyErrors}
  ELSE {[chain |-> "fulfilled", value |-> src]}

\* swPrecache.generate resolves; the minifier runs if asked for, and may throw
GenerateResolves(b) ==
  /\ builds[b].chain = "generate"
  /\ \E r \in CreateServiceWorkerOutcomes(options, GeneratedSource) :
       builds' = [builds EXCEPT ![b].chain = r.chain, ![b].value = r.value]
  /\ UNCHANGED <<config, options, overrides, warnings, lastIndex, compiler,
                 compilation, generateArg, events>>

\* swPrecache.generate rejects
GenerateRejects(b, e) ==
  /\ builds[b].chain = "generate"
  /\ builds' = [builds EXCEPT ![b].chain = "rejected", ![b].value = e]
  /\ UNCHANGED <<config, options, overrides, warnings, lastIndex, compiler,
                 compilation, generateArg, events>>

\* writeServiceWorker calling writeFile without waiting for mkdirp's callback
writeServiceWorkerNoWait(b) ==
  /\ builds[b].chain = "fulfilled"
  /\ builds' = [builds EXCEPT
       ![b].chain = "written",
       ![b].mkdirpCalls = Append(@, [path |-> ParentDirectory(workerOptions.filepath),
                                     filepath |-> workerOptions.filepath,
                                     serviceWorker |-> builds[b].value]),
       ![b].writeFileCalls = Append(@, [path |-> workerOptions.filepath,
                                        data |-> builds[b].value])]
  /\ UNCHANGED <<config, options, overrides, warnings, lastIndex, compiler,
                 compilation, generateArg, events>>

\* .then(serviceWorker => this.writeServiceWorker(serviceWorker, compiler, callback)):
\* mkdirp is called and its return value, not a promise, resolves the chain
writeServiceWorker(b) ==
  /\ builds[b].chain = "fulfilled"
  /\ builds' = [builds EXCEPT
       ![b].chain = "written",
       ![b].mkdirpCalls = Append(@, [path |-> ParentDirectory(workerOptions.filepath),
                                     filepath |-> workerOptions.filepath,
                                     serviceWorker |-> builds[b].value])]
  /\ UNCHANGED <<config, options, overrides, warnings, lastIndex, compiler,
                 compilation, generateArg, events>>

\* .then(done, error), fulfilled: callback()
done(b) ==
  /\ builds[b].chain = "written"
  /\ builds' = [builds EXCEPT ![b].chain = "settled",
                              ![b].callbackArgs = Append(@, "undefined")]
  /\ UNCHANGED <<config, options, overrides, warnings, lastIndex, compiler,
                 compilation, generateArg, events>>

\* the rejection handler dropping the error: callback()
errorDropped(b) ==
  /\ builds[b].chain = "rejected"
  /\ builds' = [builds EXCEPT ![b].chain = "settled",
                              ![b].callbackArgs = Append(@, "undefined")]
  /\ UNCHANGED <<config, options, overrides, warnings, lastIndex, compiler,
                 compilation, generateArg, events>>

\* .then(done, error), rejected: callback(err)
error(b) ==
  /\ builds[b].chain = "rejected"
  /\ builds' = [builds EXCEPT ![b].chain = "settled",
                              ![b].callbackArgs = Append(@, builds[b].value)]
  /\ UNCHANGED <<config, options, overrides, warnings, lastIndex, compiler,
                 compilation, generateArg, events>>

\* the output filesystem calls mkdirp's callback, whose err argument the
\* callback does not take: writeFile(filepath, serviceWorker, callback)
mkdirpCallback(b, err) ==
  /\ MkdirpPending(b)
  /\ LET call == builds[b].mkdirpCalls[Len(builds[b].mkdirpResults) + 1] IN
       builds' = [builds EXCEPT
         ![b].mkdirpResults = Append(@, err),
         ![b].writeFileCalls = Append(@, [path |-> call.filepath, data |-> call.serviceWorker])]
  /\ UNCHANGED <<config, options, overrides, warnings, lastIndex, compiler,
                 compilation, generateArg, events>>

\* the output filesystem calls writeFile's callback, which is the host's
\* completion callback: callback(err)
writeFileCallback(b, err) ==
  /\ WriteFilePending(b)
  /\ builds' = [builds EXCEPT
       ![b].writeFileResults = Append(@, err),
       ![b].callbackArgs = Append(@, err)]
  /\ UNCHANGED <<config, options, overrides, warnings, lastIndex, compiler,
                 compilation, generateArg, events>>

Next ==
  \/ \E emitted \in Compilations : AfterEmit(emitted)
  \/ \E b \in 1 .. Len(builds) : GenerateResolves(b)
  \/ \E b \in 1 .. Len(builds), e \in GenerateErrors : GenerateRejects(b, e)
  \/ \E b \in 1 .. Len(builds) : writeServiceWorker(b)
  \/ \E b \in 1 .. Len(builds) : done(b)
  \/ \E b \in 1 .. Len(builds) : error(b)
  \/ \E b \in 1 .. Len(builds), err \in FsResults : mkdirpCallback(b, err)
  \/ \E b \in 1 .. Len(builds), err \in FsResults : writeFileCallback(b, err)

Spec == Init /\ [][Next]_vars

----------------------------------------------------------------------------
(* Properties *)

Builds == 1 .. Len(builds)

\* the build's generation (or minification) failed: the chain was rejected
GenerationFailed(b) ==
  builds[b].value \in GenerateErrors \cup MinifyErrors

\* the build's generation and minification succeeded and the chain went on
GenerationSucceeded(b) ==
  /\ builds[b].chain \in {"written", "settled"}
  /\ ~GenerationFailed(b)

\* writeFile has called its completion callback
WriteFileCompleted(b) == builds[b].writeFileResults # <<>>

MkdirpFailed(b) == \E i \in DOMAIN builds[b].mkdirpResults : builds[b].mkdirpResults[i] = "FsError"

WriteFileFailed(b) ==
  \E i \in DOMAIN builds[b].writeFileResults : builds[b].writeFileResults[i] = "FsError"

\* nothing of the build is left to run
Quiescent(b) == Finished(builds[b])

Count(seq, x) == Cardinality({i \in DOMAIN seq : seq[i] = x})

\* C1: in a build that reaches the write, the host completion callback is not
\* invoked before writeFile has called its own completion callback
CallbackOnlyAfterWriteCompleted ==
  \A b \in Builds :
    (GenerationSucceeded(b) /\ builds[b].callbackArgs # <<>>) => WriteFileCompleted(b)

\* C2: a failed step aborts the sequence (no writeFile after a failed mkdirp), the
\* callback is never invoked with success in a build with a failed step, and once
\* the build has nothing left to run the callback has been invoked with an error
FailureAbortsAndIsReported ==
  \A b \in Builds :
    /\ MkdirpFailed(b) => builds[b].writeFileCalls = <<>>
    /\ (GenerationFailed(b) \/ MkdirpFailed(b) \/ WriteFileFailed(b)) =>
         /\ \A i \in DOMAIN builds[b].callbackArgs : ~Success(builds[b].callbackArgs[i])
         /\ Quiescent(b) => builds[b].callbackArgs # <<>>

\* C3: when the generator rejects with e, neither mkdirp nor writeFile is called in
\* that build, the callback is invoked with nothing but e, and it has been invoked
\* with e once the chain is settled
GeneratorRejectionReported ==
  \A b \in Builds :
    builds[b].value \in GenerateErrors =>
      /\ builds[b].mkdirpCalls = <<>>
      /\ builds[b].writeFileCalls = <<>>
      /\ builds[b].callbackArgs \in {<<>>, <<builds[b].value>>}
      /\ builds[b].chain = "settled" => builds[b].callbackArgs = <<builds[b].value>>

\* C3 witness: a build whose generator rejected and whose callback got the error
GeneratorRejectionReportedWitness ==
  \E b \in Builds :
    /\ builds[b].value \in GenerateErrors
    /\ builds[b].chain = "settled"
    /\ builds[b].callbackArgs = <<builds[b].value>>

\* C4: no warning is appended to the plugin's list or forwarded to
\* compilation.warnings before the build's write has completed
WarningsOnlyAfterWrite ==
  /\ \A b \in Builds : builds[b].compilationWarnings # <<>> => WriteFileCompleted(b)
  /\ (events = 1 /\ warnings # <<>>) => WriteFileCompleted(1)

\* C5: every build's compilation.warnings is empty when debug is false, and holds
\* one warning per triggered condition and no others when debug is true
OneWarningPerCondition ==
  \A b \in Builds :
    LET cw == builds[b].compilationWarnings IN
      IF Flag(options, "debug")
      THEN /\ Count(cw, FILEPATH_WARNING) = (IF Has(options, "filepath") THEN 1 ELSE 0)
           /\ Count(cw, FORCEDELETE_WARNING) = (IF Flag(options, "forceDelete") THEN 1 ELSE 0)
           /\ Len(cw) = Count(cw, FILEPATH_WARNING) + Count(cw, FORCEDELETE_WARNING)
      ELSE cw = <<>>

\* the first build of an instance forwards warnings as C5 has it
OneWarningPerConditionInFirstBuild ==
  \A b \in Builds :
    builds[b].event = 1 =>
      LET cw == builds[b].compilationWarnings IN
        IF Flag(options, "debug")
        THEN /\ Count(cw, FILEPATH_WARNING) = (IF Has(options, "filepath") THEN 1 ELSE 0)
             /\ Count(cw, FORCEDELETE_WARNING) = (IF Flag(options, "forceDelete") THEN 1 ELSE 0)
             /\ Len(cw) = Count(cw, FILEPATH_WARNING) + Count(cw, FORCEDELETE_WARNING)
        ELSE cw = <<>>

\* <output directory>/<filename>
OutputDirectoryFilename == PathNormalize(compiler.outputPath \o <<PathSep>> \o options.filename)

\* the public path of the host, '' when unset
HostPublicPath == GetOr(compiler.options.output, "publicPath", <<>>)

\* C6: after configure, every key of overrides reads in the effective configuration
\* as overrides has it; filepath is the user's filepath when given and otherwise
\* <output directory>/<filename>; importScripts is the user's list with the hash
\* substituted and resolved against the public path
OverridesTakePrecedence ==
  events > 0 =>
    LET effective == workerOptions IN
      /\ \A k \in DOMAIN overrides : effective[k] = overrides[k]
      /\ \A k \in DOMAIN overrides : generateArg[k] = overrides[k]
      /\ "filepath" \in DOMAIN overrides
      /\ effective.filepath =
           (IF Has(options, "filepath") THEN options.filepath ELSE OutputDirectoryFilename)
      /\ effective.importScripts =
           [i \in 1 .. Len(options.importScripts) |->
              UrlResolve(HostPublicPath,
                ReplaceAll(options.importScripts[i], HashPlaceholder, compilation.hash))]

\* C6 witness: in a second build, with no filepath option, the user's importScripts
\* entry 'i[hash]' reads '/p/i8' in the effective configuration
OverridesTakePrecedenceWitness ==
  /\ events = 2
  /\ ~Has(options, "filepath")
  /\ options.importScripts = UserImportScripts
  /\ compilation.hash = <<"8">>
  /\ workerOptions.importScripts = << <<"/", "p", "/", "i", "8">> >>
  /\ workerOptions.filepath = <<"/", "d", "/", "x", "/", "s">>

\* the entry configure adds to the prefix map
OutputPathPrefix == compiler.outputPath \o <<PathSep>>

\* C7: in the configuration passed to the generator, without mergeStaticsConfig each
\* of staticFileGlobs and stripPrefixMulti the user supplied is the user's value;
\* with mergeStaticsConfig both are the values configure computed for this build
StaticsPrecedence ==
  events > 0 =>
    IF Flag(options, "mergeStaticsConfig")
    THEN /\ generateArg.staticFileGlobs = config.staticFileGlobs
         /\ generateArg.stripPrefixMulti = config.stripPrefixMulti
         /\ generateArg.stripPrefixMulti[OutputPathPrefix] = HostPublicPath
         /\ \A i \in 1 .. Len(compilation.assets) :
              (\A p \in DOMAIN options.staticFileGlobsIgnorePatterns :
                 MatchPositions(options.staticFileGlobsIgnorePatterns[p],
                                PathJoin(compiler.outputPath, compilation.assets[i]), 0) = {})
              => \E j \in DOMAIN generateArg.staticFileGlobs :
                   generateArg.staticFileGlobs[j] = PathJoin(compiler.outputPath, compilation.assets[i])
    ELSE \A k \in {"staticFileGlobs", "stripPrefixMulti"} :
           Has(options, k) => generateArg[k] = options[k]

\* C7 witness: without mergeStaticsConfig the user's globs and prefix map are passed
\* to the generator, and not the computed ones
StaticsPrecedenceWitness ==
  /\ events > 0
  /\ ~Flag(options, "mergeStaticsConfig")
  /\ Has(options, "staticFileGlobs")
  /\ Has(options, "stripPrefixMulti")
  /\ generateArg.staticFileGlobs = UserStaticFileGlobs
  /\ generateArg.stripPrefixMulti = UserStripPrefixMulti
  /\ config.staticFileGlobs # UserStaticFileGlobs
  /\ config.stripPrefixMulti # UserStripPrefixMulti

\* a RegExp matches a text somewhere
Matches(re, text) == MatchPositions(re, text, 0) # {}

\* the entries of a list that match none of the patterns, in order
RECURSIVE MatchingNone(_, _)
MatchingNone(entries, patterns) ==
  IF entries = <<>> THEN <<>>
  ELSE IF \E p \in DOMAIN patterns : Matches(patterns[p], Head(entries))
       THEN MatchingNone(Tail(entries), patterns)
       ELSE <<Head(entries)>> \o MatchingNone(Tail(entries), patterns)

\* the output-directory-joined assets followed by the user's globs
AssetsAndUserGlobs ==
  [i \in 1 .. Len(compilation.assets) |->
     PathNormalize(compiler.outputPath \o <<PathSep>> \o compilation.assets[i])]
    \o GetOr(options, "staticFileGlobs", <<>>)

\* C8: the computed file-glob list is the joined assets, then the user's globs, less
\* exactly the entries that match at least one ignore pattern
StaticFileGlobsExact ==
  events > 0 =>
    config.staticFileGlobs =
      MatchingNone(AssetsAndUserGlobs, options.staticFileGlobsIgnorePatterns)

\* the file-glob list is as C8 has it whenever no ignore pattern carries the
\* global flag
StaticFileGlobsExactWithoutGlobalFlag ==
  (events > 0 /\ \A p \in DOMAIN options.staticFileGlobsIgnorePatterns :
                   ~options.staticFileGlobsIgnorePatterns[p].global)
    => config.staticFileGlobs =
         MatchingNone(AssetsAndUserGlobs, options.staticFileGlobsIgnorePatterns)

\* the last segment of a path
LastSegment(p) == LET segs == Split(p) IN segs[Len(segs)]

\* C9: a build issues at most one mkdirp and at most one writeFile; one whose
\* generation succeeded has issued the mkdirp, for the parent directory of the
\* resolved output path; the writeFile is issued once that mkdirp has called back,
\* not before, and writes the generated source to the resolved output path; a build
\* whose generation failed issues neither
OneMkdirpThenOneWrite ==
  builds # <<>> =>
    LET filepath == workerOptions.filepath
        upToLast == SubSeq(filepath, 1, Len(filepath) - Len(LastSegment(filepath)) - 1)
        parent == IF upToLast = <<>> THEN <<PathSep>> ELSE upToLast
    IN \A b \in Builds :
         /\ Len(builds[b].mkdirpCalls) <= 1
         /\ Len(builds[b].writeFileCalls) <= 1
         /\ GenerationSucceeded(b) =>
              /\ Len(builds[b].mkdirpCalls) = 1
              /\ builds[b].mkdirpCalls[1].path = parent
         /\ builds[b].writeFileCalls # <<>> <=> builds[b].mkdirpResults # <<>>
         /\ builds[b].writeFileCalls # <<>> =>
              /\ builds[b].writeFileCalls[1].path = filepath
              /\ builds[b].writeFileCalls[1].data = builds[b].value
         /\ ~GenerationSucceeded(b) =>
              builds[b].mkdirpCalls = <<>> /\ builds[b].writeFileCalls = <<>>

\* C9 witness: a second build that made its one mkdirp of /d/x and its one write of
\* /d/x/s, both completed
OneMkdirpThenOneWriteWitness ==
  \E b \in Builds :
    /\ builds[b].event = 2
    /\ Quiescent(b)
    /\ builds[b].mkdirpCalls = <<[path |-> <<"/", "d", "/", "x">>,
                                 filepath |-> <<"/", "d", "/", "x", "/", "s">>,
                                 serviceWorker |-> GeneratedSource]>>
    /\ builds[b].mkdirpResults = <<"null">>
    /\ builds[b].writeFileCalls = <<[path |-> <<"/", "d", "/", "x", "/", "s">>,
                                    data |-> GeneratedSource]>>
    /\ builds[b].writeFileResults = <<"null">>

\* C10: the host completion callback is invoked at most once per build, and exactly
\* once in a build that has nothing left to run
CallbackExactlyOnce ==
  \A b \in Builds :
    /\ Len(builds[b].callbackArgs) <= 1
    /\ Quiescent(b) => Len(builds[b].callbackArgs) = 1

====
